---- MODULE Spec2Model ----
(***************************************************************************)
(* Model of apps/demodulators/WBFM.py (class TunerDemodWBFM): the chain    *)
(* that __init__ builds (decimators, squelches, resampler, sink), the      *)
(* sample counts that flow through the connected chain, and the two        *)
(* control-plane methods set_volume and set_ctcss_tone.                    *)
(*                                                                         *)
(* Rates are integers in samples per second.  Python floats that hold a    *)
(* ratio (pfb_resamp, the demodulator gain) are modelled as exact          *)
(* rationals <<numerator, denominator>> in lowest terms; IEEE rounding is  *)
(* not modelled.  Tone frequencies are in tenths of a hertz.               *)
(***************************************************************************)
EXTENDS Integers, Sequences, FiniteSets, TLC

\* ---------------------------------------------------------------- bounds
\* Largest number of source samples the streaming path processes.
MaxSamples == 255
\* Largest number of items one squelch sees within one source-sample step.
MaxBurst == 2
\* set_volume is called with volume_db = 20 * k, k in -MaxVolSteps..MaxVolSteps.
MaxVolSteps == 2
\* Length of the prefix of the tone table that is modelled.
NumTones == 4
\* Number of set_ctcss_tone calls that are followed.
MaxToneCalls == 2

\* ------------------------------------------------------------- rationals
RECURSIVE GCD(_, _)
GCD(a, b) == IF b = 0 THEN a ELSE GCD(b, a % b)

Abs(x) == IF x < 0 THEN -x ELSE x

\* n/d in lowest terms, d > 0
Rat(n, d) ==
    LET g == GCD(Abs(n), Abs(d))
        s == IF d < 0 THEN -1 ELSE 1
    IN  <<s * (n \div g), s * (d \div g)>>

\* p * q, cancelling across before multiplying
RatMul(p, q) ==
    LET g1 == GCD(Abs(p[1]), Abs(q[2]))
        g2 == GCD(Abs(q[1]), Abs(p[2]))
    IN  Rat((p[1] \div g1) * (q[1] \div g2), (p[2] \div g2) * (q[2] \div g1))

\* p / q, q # 0
RatDiv(p, q) == RatMul(p, Rat(q[2], q[1]))

RECURSIVE Pow10(_)
Pow10(k) == IF k = 0 THEN 1 ELSE 10 * Pow10(k - 1)

\* ------------------------------------------------------ construction data
\* Python's int(samp_rate/1E6) for a non-negative integer rate
IntMspsAlt(samp_rate) ==
    IF samp_rate < 1000000 THEN 1 ELSE samp_rate \div 1000000
IntMsps(samp_rate) == samp_rate \div 1000000

\* decims = (5, int(samp_rate/1E6)); Python indexes it from 0
Decims(samp_rate) == [i \in 0..1 |-> IF i = 0 THEN 5 ELSE IntMsps(samp_rate)]

\* gate argument of analog.pwr_squelch_cc(squelch_db, 1e-1, 0, False)
SoftSquelchGateAlt == TRUE
SoftSquelchGate == FALSE

\* gate argument of analog.pwr_squelch_ff(-200, 1e-1, 0, True)
HardSquelchGateAlt == FALSE
HardSquelchGate == TRUE

\* self.quad_demod_gain = 0.050
QuadDemodGain == Rat(50, 1000)

\* pfb_resamp = audio_rate/float(samp_rate/(decims[1] * decims[0]**3))
PfbResampAlt(samp_rate, audio_rate, decims) ==
    RatDiv(Rat(audio_rate, 1),
           Rat(samp_rate, decims[1] * decims[0] * decims[0]))
PfbResamp(samp_rate, audio_rate, decims) ==
    RatDiv(Rat(audio_rate, 1),
           Rat(samp_rate, decims[1] * decims[0] * decims[0] * decims[0]))

\* the if/elif/else that picks wav_format when self.record is true
WavFormatAlt(audio_bps) ==
    IF audio_bps = 16 THEN "FORMAT_PCM_16" ELSE "FORMAT_PCM_08"
WavFormat(audio_bps) ==
    IF audio_bps = 16 THEN "FORMAT_PCM_16"
    ELSE IF audio_bps = 8 THEN "FORMAT_PCM_08"
    ELSE "FORMAT_PCM_16"

\* the sink block the record branch creates
SinkBlock(rec) == IF rec THEN "blocks_wavfile_sink" ELSE "null_sink1"

\* decimation argument of each decimating FIR filter
BlockDecim(decims) ==
    [b \in {"freq_xlating_fir_filter_ccc", "fir_filter_ccc_0",
            "fir_filter_ccc_1", "fir_filter_fff_0"} |->
        IF b = "fir_filter_ccc_1" THEN decims[1] ELSE decims[0]]

\* gate argument of each squelch block
BlockGate ==
    [b \in {"analog_pwr_squelch_cc", "analog_pwr_squelch_ff"} |->
        IF b = "analog_pwr_squelch_cc" THEN SoftSquelchGate ELSE HardSquelchGate]

Squelches == {"analog_pwr_squelch_cc", "analog_pwr_squelch_ff"}

\* The self.connect calls.  As a source `self` is the hierarchical block's
\* input port ("self_in"), as a destination its output port ("self_out").
DemodEdgesAlt ==
    { <<"self_in", "freq_xlating_fir_filter_ccc">>,
      <<"freq_xlating_fir_filter_ccc", "fir_filter_ccc_0">>,
      <<"fir_filter_ccc_0", "fir_filter_ccc_1">>,
      <<"fir_filter_ccc_1", "analog_pwr_squelch_cc">>,
      <<"analog_pwr_squelch_cc", "analog_quadrature_demod_cf">>,
      <<"analog_quadrature_demod_cf", "fir_filter_fff_0">>,
      <<"fir_filter_fff_0", "pfb_arb_resampler_fff">>,
      <<"analog_pwr_squelch_ff", "self_out">> }
DemodEdges ==
    { <<"self_in", "freq_xlating_fir_filter_ccc">>,
      <<"freq_xlating_fir_filter_ccc", "fir_filter_ccc_0">>,
      <<"fir_filter_ccc_0", "fir_filter_ccc_1">>,
      <<"fir_filter_ccc_1", "analog_pwr_squelch_cc">>,
      <<"analog_pwr_squelch_cc", "analog_quadrature_demod_cf">>,
      <<"analog_quadrature_demod_cf", "fir_filter_fff_0">>,
      <<"fir_filter_fff_0", "pfb_arb_resampler_fff">>,
      <<"pfb_arb_resampler_fff", "self_out">> }

\* The connections of the record branch (same shape in both arms)
RecordEdges(rec) ==
    { <<"pfb_arb_resampler_fff", "analog_pwr_squelch_ff">>,
      <<"analog_pwr_squelch_ff", SinkBlock(rec)>> }

Nodes ==
    { "self_in", "freq_xlating_fir_filter_ccc", "fir_filter_ccc_0",
      "fir_filter_ccc_1", "analog_pwr_squelch_cc",
      "analog_quadrature_demod_cf", "fir_filter_fff_0",
      "pfb_arb_resampler_fff", "self_out", "analog_pwr_squelch_ff",
      "blocks_wavfile_sink", "null_sink1" }

\* ----------------------------------------------------------------- state
VARIABLES
    phase,            \* "new", "built" or "failed": outcome of __init__
    error,            \* exception that ended __init__, or "none"
    samp_rate,        \* __init__ argument
    audio_rate,       \* __init__ argument
    record,           \* self.record
    audio_bps,        \* self.audio_bps
    decims,           \* the decims tuple
    decim,            \* decimation of each decimating filter
    gate,             \* gate flag of each squelch
    pfb_resamp,       \* resampling ratio given to the arbitrary resampler
    wav_format,       \* sample format of the wav file sink, "none" without one
    edges,            \* connections made by self.connect
    quad_demod_gain,  \* self.quad_demod_gain
    demod_gain,       \* gain held by analog_quadrature_demod_cf
    produced,         \* items each node has emitted (a sink: received)
    muted,            \* each squelch's current state (TRUE = closed)
    opened,           \* items each squelch consumed while open
    last_volume,      \* argument of the latest set_volume call
    prev_volume,      \* argument of the set_volume call before it
    ctcss_index,      \* self.ctcss_index
    ctcss_tone,       \* self.ctcss_tone
    pc,               \* position of the running set_ctcss_tone call
    tone_arg,         \* its argument
    tone_ret,         \* value returned by the latest finished call
    tone_outcome,     \* "none", "running", "returned" or "ValueError"
    index_before,     \* ctcss_index when the running/latest call started
    index_seen,       \* values ctcss_index has held during that call
    tone_calls        \* number of set_ctcss_tone calls started

chainVars == <<phase, error, samp_rate, audio_rate, record, audio_bps, decims,
               decim, gate, pfb_resamp, wav_format, edges, quad_demod_gain>>
streamVars == <<produced, muted, opened>>
volumeVars == <<demod_gain, last_volume, prev_volume>>
toneVars == <<ctcss_index, ctcss_tone, pc, tone_arg, tone_ret, tone_outcome,
              index_before, index_seen, tone_calls>>
vars == <<chainVars, streamVars, volumeVars, toneVars>>


\* ------------------------------------------------------------ input sets
\* samp_rate values tried: below 1 Msps, at the bounds of a factor, above
Rates == {0, 500000, 999999, 1000000, 1000001, 1960000, 2000000}
AudioRates == {8000, 16000}
BitDepths == {8, 16, 24}

\* ---------------------------------------------------------- construction
NoDecims == [i \in 0..1 |-> 0]
NoCounts == [b \in Nodes |-> 0]

\* pwr_squelch blocks start muted
InitMuted == [b \in Squelches |-> TRUE]

\* Attributes the base class sets before the first set_ctcss_tone call
InitCtcssIndex == 0
InitCtcssTone == 0

\* What __init__ leaves behind when every statement succeeds
Constructed(R, A, rec, bps) ==
    [ samp_rate  |-> R,
      audio_rate |-> A,
      record     |-> rec,
      audio_bps  |-> bps,
      decims     |-> Decims(R),
      decim      |-> BlockDecim(Decims(R)),
      gate       |-> BlockGate,
      pfb_resamp |-> PfbResamp(R, A, Decims(R)),
      wav_format |-> IF rec THEN WavFormat(bps) ELSE "none",
      edges      |-> DemodEdges \cup RecordEdges(rec),
      quad_demod_gain |-> QuadDemodGain ]

Init ==
    /\ phase = "new"
    /\ error = "none"
    /\ samp_rate = 0
    /\ audio_rate = 0
    /\ record = FALSE
    /\ audio_bps = 0
    /\ decims = NoDecims
    /\ decim = [b \in {} |-> 0]
    /\ gate = [b \in {} |-> FALSE]
    /\ pfb_resamp = <<0, 1>>
    /\ wav_format = "none"
    /\ edges = {}
    /\ quad_demod_gain = <<0, 1>>
    /\ demod_gain = <<0, 1>>
    /\ produced = NoCounts
    /\ muted = InitMuted
    /\ opened = [b \in Squelches |-> 0]
    /\ last_volume = <<>>
    /\ prev_volume = <<>>
    /\ ctcss_index = InitCtcssIndex
    /\ ctcss_tone = InitCtcssTone
    /\ pc = "idle"
    /\ tone_arg = 0
    /\ tone_ret = <<>>
    /\ tone_outcome = "none"
    /\ index_before = InitCtcssIndex
    /\ index_seen = {}
    /\ tone_calls = 0

\* __init__ with a rate whose third-stage factor is at least 1
ConstructOk(R, A, rec, bps) ==
    /\ phase = "new"
    /\ Decims(R)[1] >= 1
    /\ LET c == Constructed(R, A, rec, bps) IN
        /\ phase' = "built"
        /\ error' = "none"
        /\ samp_rate' = c.samp_rate
        /\ audio_rate' = c.audio_rate
        /\ record' = c.record
        /\ audio_bps' = c.audio_bps
        /\ decims' = c.decims
        /\ decim' = c.decim
        /\ gate' = c.gate
        /\ pfb_resamp' = c.pfb_resamp
        /\ wav_format' = c.wav_format
        /\ edges' = c.edges
        /\ quad_demod_gain' = c.quad_demod_gain
        /\ demod_gain' = c.quad_demod_gain
    /\ UNCHANGED <<streamVars, last_volume, prev_volume, toneVars>>

\* __init__ with decims[1] = 0.  fir_filter_ccc(decims[1], ...) is library
\* code that may reject a decimation of 0; if it does not, the next use of
\* decims[1], samp_rate/(decims[1] * decims[0]**2), divides by zero.
\* Either way an exception leaves __init__ before any connect call.
ConstructFail(R, A, rec, bps, exc) ==
    /\ phase = "new"
    /\ Decims(R)[1] = 0
    /\ phase' = "failed"
    /\ error' = exc
    /\ samp_rate' = R
    /\ audio_rate' = A
    /\ record' = rec
    /\ audio_bps' = bps
    /\ decims' = Decims(R)
    /\ quad_demod_gain' = QuadDemodGain
    /\ UNCHANGED <<decim, gate, pfb_resamp, wav_format, edges, demod_gain,
                   streamVars, last_volume, prev_volume, toneVars>>

Construct ==
    \E R \in Rates, A \in AudioRates, rec \in BOOLEAN, bps \in BitDepths :
        \/ ConstructOk(R, A, rec, bps)
        \/ ConstructFail(R, A, rec, bps, "RuntimeError")
        \/ ConstructFail(R, A, rec, bps, "ZeroDivisionError")

\* ------------------------------------------------------------- streaming
Connected(b) == \E s \in Nodes : <<s, b>> \in edges

\* the block connected to b's input
Up(b) == CHOOSE s \in Nodes : <<s, b>> \in edges

\* Items node b has emitted in total once one more source sample has run
\* through the chain, pass[q] being the number of the newly arrived items
\* that squelch q sees while open.  A decimating filter emits one item per
\* decim[b] inputs, the resampler pfb_resamp items per input, a squelch
\* with gate set only the items it sees while open, every other block one
\* item per input.
RECURSIVE NewTotal(_, _)
NewTotal(b, pass) ==
    IF b = "self_in" THEN produced[b] + 1
    ELSE IF ~Connected(b) THEN produced[b]
    ELSE LET u      == Up(b)
             in_new == NewTotal(u, pass)
             delta  == in_new - produced[u]
         IN  CASE b \in DOMAIN decim -> in_new \div decim[b]
               [] b = "pfb_arb_resampler_fff" ->
                      (in_new * pfb_resamp[1]) \div pfb_resamp[2]
               [] b \in Squelches ->
                      IF gate[b] THEN produced[b] + pass[b]
                                 ELSE produced[b] + delta
               [] OTHER -> produced[b] + delta

\* items newly arriving at b in this step
DeltaIn(b, pass) == NewTotal(Up(b), pass) - produced[Up(b)]

\* One source sample enters the chain and everything it causes downstream
\* happens.  Each squelch updates its state per item it consumes: m[q] is
\* its state after the last item of the step.
Work ==
    /\ phase = "built"
    /\ produced["self_in"] < MaxSamples
    /\ \E pass \in [Squelches -> 0..MaxBurst], m \in [Squelches -> BOOLEAN] :
        /\ \A q \in Squelches :
              LET dl == DeltaIn(q, pass) IN
                /\ pass[q] <= dl
                /\ IF dl = 0 THEN m[q] = muted[q]
                   ELSE IF m[q] THEN pass[q] < dl ELSE pass[q] >= 1
        /\ produced' = [b \in Nodes |-> NewTotal(b, pass)]
        /\ muted' = m
        /\ opened' = [q \in Squelches |-> opened[q] + pass[q]]
    /\ UNCHANGED <<chainVars, volumeVars, toneVars>>

Next == Construct \/ Work

Spec == Init /\ [][Next]_vars


\* --------------------------------------------------------- control plane
\* First entries of ct.ctcss_tones, in tenths of a hertz
AllTones == <<670, 693, 719, 744, 770, 797, 825, 854>>

\* ct.ctcss_tones as a Python list: indexed from 0
ctcss_tones == [i \in 0..(NumTones - 1) |-> AllTones[i + 1]]

TableTones == {ctcss_tones[i] : i \in DOMAIN ctcss_tones}

\* Arguments tried: every tone of the table and two that are not in it
ToneArgs == TableTones \cup {680, 10000}

\* list.index(x) where x is in the list: the first position holding x
ListIndex(list, x) ==
    CHOOSE i \in DOMAIN list :
        list[i] = x /\ \A j \in DOMAIN list : list[j] = x => i <= j

\* list.index(x) raises ValueError exactly when x is not in the list
IndexRaisesAlt(list, x) == FALSE
IndexRaises(list, x) == \A i \in DOMAIN list : list[i] # x

\* what line 188 stores when the lookup does not raise
FoundIndex(list, x) ==
    IF \E i \in DOMAIN list : list[i] = x THEN ListIndex(list, x) ELSE -1

\* Python's ~i on an int
BitNot(i) == -i - 1

\* Python's truth value of an int
Truthy(i) == i # 0

\* list[i] with Python's negative indices
GetItem(list, i) ==
    IF i < 0 THEN list[Cardinality(DOMAIN list) + i] ELSE list[i]

\* the base gain set_volume multiplies: self.quad_demod_gain
VolumeBaseAlt(attr, block_gain) == block_gain
VolumeBase(attr, block_gain) == attr

\* gain = base * 10**(volume_db/20.0), volume_db a multiple of 20
VolumeGain(base, volume_db) ==
    LET k == volume_db \div 20 IN
        IF k >= 0 THEN RatMul(base, Rat(Pow10(k), 1))
                  ELSE RatMul(base, Rat(1, Pow10(-k)))

Volumes == {20 * k : k \in (-MaxVolSteps)..MaxVolSteps}

set_volume(volume_db) ==
    /\ phase = "built"
    /\ demod_gain' = VolumeGain(VolumeBase(quad_demod_gain, demod_gain), volume_db)
    /\ prev_volume' = last_volume
    /\ last_volume' = <<volume_db>>
    /\ UNCHANGED <<chainVars, streamVars, toneVars>>

\* set_ctcss_tone is followed statement by statement; every state in
\* between is one a concurrent reader of the attributes can observe.
ToneCall(f) ==
    /\ phase = "built"
    /\ pc = "idle"
    /\ tone_calls < MaxToneCalls
    /\ pc' = "188"
    /\ tone_arg' = f
    /\ tone_ret' = <<>>
    /\ tone_outcome' = "running"
    /\ index_before' = ctcss_index
    /\ index_seen' = {ctcss_index}
    /\ tone_calls' = tone_calls + 1
    /\ UNCHANGED <<chainVars, streamVars, volumeVars, ctcss_index, ctcss_tone>>

\* self.ctcss_index = ct.ctcss_tones.index(ctcss_tone)
Tone188 ==
    /\ pc = "188"
    /\ IF IndexRaises(ctcss_tones, tone_arg)
       THEN /\ pc' = "idle"
            /\ tone_outcome' = "ValueError"
            /\ UNCHANGED <<ctcss_index, index_seen>>
       ELSE /\ pc' = "189"
            /\ ctcss_index' = FoundIndex(ctcss_tones, tone_arg)
            /\ index_seen' = index_seen \cup {ctcss_index'}
            /\ UNCHANGED tone_outcome
    /\ UNCHANGED <<chainVars, streamVars, volumeVars, ctcss_tone, tone_arg,
                   tone_ret, index_before, tone_calls>>

\* if (~self.ctcss_index): self.ctcss_index = 0
Tone189 ==
    /\ pc = "189"
    /\ pc' = "191"
    /\ ctcss_index' = IF Truthy(BitNot(ctcss_index)) THEN 0 ELSE ctcss_index
    /\ index_seen' = index_seen \cup {ctcss_index'}
    /\ UNCHANGED <<chainVars, streamVars, volumeVars, ctcss_tone, tone_arg,
                   tone_ret, tone_outcome, index_before, tone_calls>>

\* self.ctcss_tone = ct.ctcss_tones[self.ctcss_index]
Tone191 ==
    /\ pc = "191"
    /\ pc' = "192"
    /\ ctcss_tone' = GetItem(ctcss_tones, ctcss_index)
    /\ UNCHANGED <<chainVars, streamVars, volumeVars, ctcss_index, tone_arg,
                   tone_ret, tone_outcome, index_before, index_seen, tone_calls>>

\* return self.ctcss_tone
Tone192 ==
    /\ pc = "192"
    /\ pc' = "idle"
    /\ tone_ret' = <<ctcss_tone>>
    /\ tone_outcome' = "returned"
    /\ UNCHANGED <<chainVars, streamVars, volumeVars, ctcss_index, ctcss_tone,
                   tone_arg, index_before, index_seen, tone_calls>>

set_ctcss_tone == Tone188 \/ Tone189 \/ Tone191 \/ Tone192

\* The control plane starts from a constructed chain
InitCtl ==
    LET c == Constructed(1000000, 8000, TRUE, 8) IN
    /\ phase = "built"
    /\ error = "none"
    /\ samp_rate = c.samp_rate
    /\ audio_rate = c.audio_rate
    /\ record = c.record
    /\ audio_bps = c.audio_bps
    /\ decims = c.decims
    /\ decim = c.decim
    /\ gate = c.gate
    /\ pfb_resamp = c.pfb_resamp
    /\ wav_format = c.wav_format
    /\ edges = c.edges
    /\ quad_demod_gain = c.quad_demod_gain
    /\ demod_gain = c.quad_demod_gain
    /\ produced = NoCounts
    /\ muted = InitMuted
    /\ opened = [b \in Squelches |-> 0]
    /\ last_volume = <<>>
    /\ prev_volume = <<>>
    /\ ctcss_index = InitCtcssIndex
    /\ ctcss_tone = InitCtcssTone
    /\ pc = "idle"
    /\ tone_arg = 0
    /\ tone_ret = <<>>
    /\ tone_outcome = "none"
    /\ index_before = InitCtcssIndex
    /\ index_seen = {}
    /\ tone_calls = 0

NextCtl ==
    \/ \E v \in Volumes : set_volume(v)
    \/ \E f \in ToneArgs : ToneCall(f)
    \/ set_ctcss_tone

SpecCtl == InitCtl /\ [][NextCtl]_vars


\* ---------------------------------------------------------------- claims
\* Sample rate at the output of node b, following the connections from the
\* input port: a decimating filter divides the rate by its factor, the
\* resampler multiplies it by its ratio, every other block keeps it.
RECURSIVE RateOut(_)
RateOut(b) ==
    IF b = "self_in" THEN Rat(samp_rate, 1)
    ELSE LET r == RateOut(Up(b)) IN
         IF b \in DOMAIN decim THEN RatDiv(r, Rat(decim[b], 1))
         ELSE IF b = "pfb_arb_resampler_fff" THEN RatMul(r, pfb_resamp)
         ELSE r

C2_PresentToneSelected ==
    (pc = "idle" /\ tone_calls > 0 /\ tone_arg \in TableTones) =>
        /\ tone_outcome = "returned"
        /\ tone_ret = <<tone_arg>>
        /\ ctcss_index = ListIndex(ctcss_tones, tone_arg)
        /\ ctcss_tone = tone_arg

\* C3: set_ctcss_tone(f) with f not in the tone table never gets past the
\* lookup: it ends in ValueError, returns nothing and leaves ctcss_index as
\* it was; no tone is substituted.
C3_AbsentToneRaises ==
    (tone_calls > 0 /\ tone_arg \notin TableTones) =>
        /\ pc \in {"188", "idle"}
        /\ tone_ret = <<>>
        /\ ctcss_index = index_before
        /\ pc = "idle" => tone_outcome = "ValueError"

C3_Witness ==
    /\ pc = "idle"
    /\ tone_arg = 680
    /\ tone_outcome = "ValueError"
    /\ tone_calls = 2

\* C4: an attempt to construct with samp_rate below 1 Msps ends in an
\* exception with nothing connected, and every built chain has decimation
\* factors >= 1 with the third stage equal to floor(samp_rate / 1e6).
C4_LowRateFails ==
    /\ (phase # "new" /\ samp_rate < 1000000) =>
          (phase = "failed" /\ error # "none" /\ edges = {})
    /\ phase = "built" =>
          /\ \A b \in DOMAIN decim : decim[b] >= 1
          /\ decim["fir_filter_ccc_1"] * 1000000 <= samp_rate
          /\ samp_rate < (decim["fir_filter_ccc_1"] + 1) * 1000000

C4_Witness ==
    /\ phase = "failed"
    /\ samp_rate = 999999
    /\ error = "ZeroDivisionError"

\* C5: after any set_volume calls the demodulator gain is
\* 0.050 * 10^(v/20) for the last argument v alone, and
\* self.quad_demod_gain is still 0.050.
C5_GainFromLastVolume ==
    last_volume # <<>> =>
        LET k == last_volume[1] \div 20 IN
        /\ quad_demod_gain = <<1, 20>>
        /\ demod_gain[1] * 1000 * (IF k < 0 THEN Pow10(-k) ELSE 1)
             = 50 * (IF k >= 0 THEN Pow10(k) ELSE 1) * demod_gain[2]
        /\ last_volume[1] = 0 => demod_gain = <<1, 20>>
        /\ last_volume[1] = 20 => demod_gain = <<1, 2>>

C5_Witness ==
    /\ prev_volume = <<20>>
    /\ last_volume = <<20>>
    /\ demod_gain = <<1, 2>>

\* C6: whatever the soft squelch's state has been, the number of items
\* that reached the quadrature demodulator equals the number that left the
\* IF decimator fir_filter_ccc_1.
C6_SoftSquelchNonBlocking ==
    phase = "built" =>
        /\ produced[Up("analog_quadrature_demod_cf")]
             = produced["fir_filter_ccc_1"]
        /\ produced["analog_quadrature_demod_cf"]
             = produced["fir_filter_ccc_1"]

C6_Witness ==
    /\ phase = "built"
    /\ muted["analog_pwr_squelch_cc"]
    /\ opened["analog_pwr_squelch_cc"] = 1
    /\ produced["analog_pwr_squelch_cc"] = 3

\* C7: with or without recording, the sink is fed by the hard squelch
\* alone and has received exactly the items the hard squelch consumed
\* while open: nothing that arrived while it was closed.
C7_HardSquelchBlocks ==
    phase = "built" =>
        /\ \A s \in Nodes :
              <<s, SinkBlock(record)>> \in edges => s = "analog_pwr_squelch_ff"
        /\ produced[SinkBlock(record)] = opened["analog_pwr_squelch_ff"]
        /\ produced[SinkBlock(~record)] = 0

C7_Witness ==
    /\ phase = "built"
    /\ muted["analog_pwr_squelch_ff"]
    /\ produced["pfb_arb_resampler_fff"] = 2
    /\ produced[SinkBlock(record)] = 1

\* C8: a recording chain has a wav file sink whose format is 8-bit for
\* audio_bps = 8 and 16-bit for every other value; a non-recording chain
\* has the null sink and no wav format; construction fails only for a rate
\* below 1 Msps, never for the bit depth.
C8_SinkFormat ==
    /\ phase = "built" =>
          IF record
          THEN /\ wav_format = IF audio_bps = 8 THEN "FORMAT_PCM_08"
                                               ELSE "FORMAT_PCM_16"
               /\ <<"analog_pwr_squelch_ff", "blocks_wavfile_sink">> \in edges
               /\ ~Connected("null_sink1")
          ELSE /\ wav_format = "none"
               /\ <<"analog_pwr_squelch_ff", "null_sink1">> \in edges
               /\ ~Connected("blocks_wavfile_sink")
    /\ phase = "failed" => samp_rate < 1000000

C8_Witness ==
    /\ phase = "built"
    /\ record
    /\ audio_bps = 24
    /\ wav_format = "FORMAT_PCM_16"

\* C9: the output port is connected to the resampler and has received
\* every item the resampler produced, whatever the hard squelch did.
C9_OutputUpstreamOfHardSquelch ==
    phase = "built" =>
        /\ <<"pfb_arb_resampler_fff", "self_out">> \in edges
        /\ produced["self_out"] = produced["pfb_arb_resampler_fff"]

C9_Witness ==
    /\ phase = "built"
    /\ muted["analog_pwr_squelch_ff"]
    /\ opened["analog_pwr_squelch_ff"] = 0
    /\ produced["self_out"] = 2
    /\ produced[SinkBlock(record)] = 0

\* C10: over a finished set_ctcss_tone call, ctcss_index has only ever held
\* the value from before the call or the value the call left.
C10_IndexAtomic ==
    (pc = "idle" /\ tone_outcome = "returned") =>
        index_seen \subseteq {index_before, ctcss_index}

====
